---- MODULE Spec2Model ----
(***************************************************************************)
(* BizScout-AI: the strategy scorer (helper/scoring_engine.py), the        *)
(* frequency-weighted zoning clusterer (loaders/csv_loader.py) and the     *)
(* loading pipeline (main.py), as state machines.                          *)
(*                                                                         *)
(* Numbers.  Scores are kept in half units (every weight of the source is  *)
(* a multiple of 0.5, so 2*score is an integer for integer features).      *)
(* Coordinates are integers in units of 1e-5 degree, so that rounding to   *)
(* four decimals (a multiple of 10 units) is a real conversion.            *)
(***************************************************************************)
EXTENDS Integers, Sequences, FiniteSets, TLC

VARIABLES
    \* ---- rank_clusters (scoring_engine.py) ----
    cluster_df,     \* argument: [scored: does it carry a 'score' column, rows: Seq]
    capital,        \* argument
    risk,           \* argument
    rank_status,    \* "pending" | "returned" | "raised"
    ranked,         \* the returned table (same shape as cluster_df)
    \* ---- CSVLoader (csv_loader.py) ----
    zoning_file,    \* the zoning CSV: [exists, rows: Seq of [zone, geom]]
    n_clusters,     \* self.n_clusters
    zoning_df,      \* the frame _load_zoning_data builds: [clustered, rows]
    clustering,     \* what _perform_clustering did: "not_run" | "clustered" | "swallowed"
    kmeans,         \* the k-means call of _perform_clustering: [coords, labels]
    load_status,    \* CSVLoader.load_data: "pending" | "returned" | "raised"
    centroids_file, \* cluster_centroids.json: [exists, run, data]
    run,            \* number of the pipeline run in progress (0: no pipeline)
    \* ---- load_data_sources (main.py) and the geo-tagging loaders ----
    pc,             \* "idle" | "yelp" | "csv" | "opentable" | "done"
    yelp,           \* YelpDeliveryLoader: [status, run, centroids, responses, data]
    opentable,      \* OpentableScraper: [status, run, centroids, responses, data]
    raw_data,       \* keys of the dict load_data_sources builds (returns to process_data)
    \* ---- get_cluster_profiles (scoring_engine.py) ----
    combined_data,  \* argument df: [flagged: has a 'has_target_category' column, rows]
    target_category, \* argument: [given, name]; given = FALSE is None
    cluster_stats,  \* the returned table (a sequence of rows)
    profile_status, \* "pending" | "returned"
    \* ---- _process_yelp_data / _process_opentable_data (data_processor.py) ----
    price_run,      \* one call: [source, has_column, labels, status, price_category]
    \* ---- main, process_data, analyze_data (main.py) ----
    mode,           \* --mode: "process" | "analyze" | "both"
    main_pc,        \* "idle" | "process" | "analyze" | "done" | "failed"
    semi_processed, \* sources with a <source>_data_*.csv in data/semi_processed
    processed_dir,  \* the combined_restaurants_*.csv files: set of [name, mtime]
    process_result, \* process_data: [status, wrote: name of the combined file or 0]
    analysis,       \* analyze_data: [status, input: name of the file read or 0, files]
    final_output    \* names of the files in data/final_output

rank_vars == <<cluster_df, capital, risk, rank_status, ranked>>
zoning_vars ==
    <<zoning_file, n_clusters, zoning_df, clustering, kmeans, load_status, centroids_file, run>>

pipeline_vars == <<pc, yelp, opentable, raw_data>>

profile_vars == <<combined_data, target_category, cluster_stats, profile_status>>

processor_vars == <<price_run>>

main_vars ==
    <<mode, main_pc, semi_processed, processed_dir, process_result, analysis, final_output>>

vars == <<rank_vars, zoning_vars, pipeline_vars, profile_vars, processor_vars, main_vars>>

----------------------------------------------------------------------------
\* Bounds of the model
MaxRows == 2        \* rows of a ClusterProfile table
MaxRecords == 3     \* rows of the zoning file
MaxK == 3           \* largest configured cluster count
MaxRuns == 2        \* pipeline runs in a behaviour
MaxBusinesses == 3  \* rows of the combined restaurant table
MaxListings == 2    \* rows of a source table given to the data processor
MaxFiles == 2       \* combined files left by earlier runs
DefaultClusters == 2   \* stands for the default n_clusters (1000), scaled to the modelled files
FeatureValues == {1, 2}   \* the values a feature of a row takes

Levels == {"Low", "High", "Medium"}   \* "Medium" stands for any unrecognised level

\* generic helpers
Range(f) == {f[x] : x \in DOMAIN f}
Perms(n) == {p \in [1..n -> 1..n] : \A i, j \in 1..n : p[i] = p[j] => i = j}

----------------------------------------------------------------------------
(***************************************************************************)
(* rank_clusters                                                           *)
(***************************************************************************)

\* One row of the table get_cluster_profiles returns (score = 0 while the
\* table has no score column).
ProfileRow(id, cc, ff, ar, ap) ==
    [cluster_id |-> id, category_count |-> cc, total_footfall |-> ff,
     avg_rating |-> ar, avg_price |-> ap, score |-> 0]

\* The branches with the formulas of Low/Low and High/High exchanged.
StrategyScoreSwapped(row, cap, rsk) ==
    IF cap = "High" /\ rsk = "High" THEN
        (-6) * row.category_count + (-3) * row.total_footfall + (-1) * row.avg_price
    ELSE IF cap = "Low" /\ rsk = "High" THEN
        6 * row.total_footfall + (-5) * row.category_count
            + (-2) * row.avg_price + (-3) * row.avg_rating
    ELSE IF cap = "High" /\ rsk = "Low" THEN
        (-4) * row.category_count + 4 * row.total_footfall
            + (-2) * row.avg_price + (-1) * row.avg_rating
    ELSE
        7 * row.total_footfall + 5 * row.avg_rating
            + 3 * row.category_count + 2 * row.avg_price

\* The four branches of rank_clusters, in half units.
StrategyScore(row, cap, rsk) ==
    IF cap = "Low" /\ rsk = "Low" THEN
        (-6) * row.category_count + (-3) * row.total_footfall + (-1) * row.avg_price
    ELSE IF cap = "Low" /\ rsk = "High" THEN
        6 * row.total_footfall + (-5) * row.category_count
            + (-2) * row.avg_price + (-3) * row.avg_rating
    ELSE IF cap = "High" /\ rsk = "Low" THEN
        (-4) * row.category_count + 4 * row.total_footfall
            + (-2) * row.avg_price + (-1) * row.avg_rating
    ELSE \* cap = "High" /\ rsk = "High"
        7 * row.total_footfall + 5 * row.avg_rating
            + 3 * row.category_count + 2 * row.avg_price

\* Does one of the if/elif branches match?
HasBranch(cap, rsk) == cap \in {"Low", "High"} /\ rsk \in {"Low", "High"}

\* A column assignment that skips an empty frame (what a row-by-row loop does).
AssignScoreRowwise(df, cap, rsk) ==
    IF HasBranch(cap, rsk) /\ Len(df.rows) > 0
    THEN [scored |-> TRUE,
          rows |-> [i \in 1..Len(df.rows) |->
                      [df.rows[i] EXCEPT !.score = StrategyScore(df.rows[i], cap, rsk)]]]
    ELSE df

\* df = cluster_df.copy(); df['score'] = ... in the matching branch, df left
\* as copied when no branch matches.
AssignScore(df, cap, rsk) ==
    IF HasBranch(cap, rsk)
    THEN [scored |-> TRUE,
          rows |-> [i \in 1..Len(df.rows) |->
                      [df.rows[i] EXCEPT !.score = StrategyScore(df.rows[i], cap, rsk)]]]
    ELSE df

\* The orders an ascending sort may return.
SortValuesAsc(rows) ==
    {[i \in 1..Len(rows) |-> rows[p[i]]] : p \in
        {q \in Perms(Len(rows)) :
            \A i \in 1..(Len(rows) - 1) : rows[q[i]].score <= rows[q[i + 1]].score}}

\* df.sort_values(by='score', ascending=False): the default kind is
\* 'quicksort', which is not stable, so every order with non-increasing
\* scores is a possible result.
SortValuesDesc(rows) ==
    {[i \in 1..Len(rows) |-> rows[p[i]]] : p \in
        {q \in Perms(Len(rows)) :
            \A i \in 1..(Len(rows) - 1) : rows[q[i]].score >= rows[q[i + 1]].score}}

NoTable == [scored |-> FALSE, rows |-> <<>>]

\* The columns of a table: those of get_cluster_profiles, and 'score' once
\* rank_clusters has assigned it (the only column it adds).
TableColumns(t) ==
    {"cluster_id", "category_count", "total_footfall", "avg_rating", "avg_price",
     "business_density"} \cup (IF t.scored THEN {"score"} ELSE {})

\* The tables get_cluster_profiles can hand over: one row per cluster id,
\* ascending cluster ids, no score column.
ProfileTables ==
    UNION {
        {[scored |-> FALSE,
          rows |-> [i \in 1..n |-> ProfileRow(i, f[i][1], f[i][2], f[i][3], f[i][4])]] :
            f \in [1..n -> FeatureValues \X FeatureValues \X FeatureValues \X FeatureValues]}
        : n \in 0..MaxRows}

\* rank_clusters(cluster_df, capital, risk), the whole call.
RankClusters ==
    /\ rank_status = "pending"
    /\ LET df == AssignScore(cluster_df, capital, risk) IN
         IF df.scored
         THEN /\ \E out \in SortValuesDesc(df.rows) :
                    ranked' = [scored |-> TRUE, rows |-> out]
              /\ rank_status' = "returned"
         ELSE \* sort_values(by='score') on a frame without that column: KeyError
              /\ ranked' = NoTable
              /\ rank_status' = "raised"
    /\ UNCHANGED <<cluster_df, capital, risk>>
    /\ UNCHANGED <<zoning_vars, pipeline_vars, profile_vars, processor_vars, main_vars>>

\* A caller hands a table that rank_clusters returned earlier (so it carries
\* a score column) to rank_clusters again, with any pair.  Its result is
\* again a table with a score column, so one such round covers them.
RankAgain ==
    /\ rank_status = "returned"
    /\ ~cluster_df.scored
    /\ cluster_df' = ranked
    /\ capital' \in Levels
    /\ risk' \in Levels
    /\ rank_status' = "pending"
    /\ ranked' = NoTable
    /\ UNCHANGED <<zoning_vars, pipeline_vars, profile_vars, processor_vars, main_vars>>

RankNext == RankClusters \/ RankAgain


----------------------------------------------------------------------------
(***************************************************************************)
(* CSVLoader: centroid extraction, clustering, the centroid artifact       *)
(***************************************************************************)

\* Shapes of the_geom, by their centroid (x = longitude, y = latitude, in
\* 1e-5 degree), and a string shapely cannot parse.
Malformed == [ok |-> FALSE, x |-> 0, y |-> 0]
Shapes == {[ok |-> TRUE, x |-> 0, y |-> 0], [ok |-> TRUE, x |-> 0, y |-> 4],
           [ok |-> TRUE, x |-> 0, y |-> 10], [ok |-> TRUE, x |-> 14, y |-> 10]}
Geometries == Shapes \cup {Malformed}

\* Rows of the zoning CSV: zone = FALSE is an empty ZONE_CMPLT.
ZoningRows == [zone : BOOLEAN, geom : Geometries]

ZoningFiles ==
    {[exists |-> FALSE, rows |-> <<>>]} \cup
    UNION {{[exists |-> TRUE, rows |-> r] : r \in [1..n -> ZoningRows]} : n \in 0..MaxRecords}

NoValue == [ok |-> FALSE, latitude |-> 0, longitude |-> 0]    \* None / NaN
NoCluster == [ok |-> FALSE, id |-> 0]                         \* NaN in 'cluster'

\* The coordinates taken the other way round.
CalculateCentroidSwapped(geom) ==
    IF geom.ok THEN [ok |-> TRUE, latitude |-> geom.x, longitude |-> geom.y]
    ELSE NoValue

\* _calculate_centroid: latitude = centroid.y, longitude = centroid.x; None
\* when parsing raises.
CalculateCentroid(geom) ==
    IF geom.ok THEN [ok |-> TRUE, latitude |-> geom.y, longitude |-> geom.x]
    ELSE NoValue

\* round(4) and the ':.4f' format: the nearest multiple of 1e-4 degree
\* (10 units), halves to the even neighbour.
Round4(v) ==
    LET q == v \div 10
        r == v % 10
    IN IF r < 5 THEN 10 * q
       ELSE IF r > 5 THEN 10 * (q + 1)
       ELSE IF q % 2 = 0 THEN 10 * q ELSE 10 * (q + 1)

\* (lat_rounded, long_rounded) of a row
Rounded(row) == <<Round4(row.centroid.latitude), Round4(row.centroid.longitude)>>

CoordLess(a, b) == a[1] < b[1] \/ (a[1] = b[1] /\ a[2] < b[2])

\* The keys of a groupby, in its (sorted) order.
SortedCoords(S) ==
    CHOOSE q \in [1..Cardinality(S) -> S] :
        \A i, j \in 1..Cardinality(S) : i < j => CoordLess(q[i], q[j])

\* freq_df: one row per rounded coordinate of the rows that have a
\* centroid (groupby drops NaN keys), with its number of rows.
FreqDf(rows) ==
    LET valid == {i \in 1..Len(rows) : rows[i].centroid.ok}
        keys == SortedCoords({Rounded(rows[i]) : i \in valid})
    IN [k \in 1..Len(keys) |->
          [coord |-> keys[k],
           frequency |-> Cardinality({i \in valid : Rounded(rows[i]) = keys[k]})]]

RECURSIVE Flatten(_)
Flatten(seqs) == IF seqs = <<>> THEN <<>> ELSE Head(seqs) \o Flatten(Tail(seqs))

\* The frequency table used without repeating its rows.
RepeatedRowsOnce(freq) == [k \in 1..Len(freq) |-> freq[k].coord]

\* freq_df.loc[freq_df.index.repeat(freq_df['frequency'])]
RepeatedRows(freq) ==
    Flatten([k \in 1..Len(freq) |-> [j \in 1..freq[k].frequency |-> freq[k].coord]])

\* KMeans(n_clusters=K).fit_predict(coords) raises ValueError for K < 1 and
\* for fewer samples than clusters (also for no sample at all).
KMeansRaises(coords, K) == K < 1 \/ Len(coords) < K

MinInt(a, b) == IF a < b THEN a ELSE b

\* The labellings fit_predict may return: a label in 0..K-1 per sample,
\* equal samples labelled alike (the label is the nearest centre), and as
\* many clusters in use as there are distinct samples, up to K.
KMeansLabels(coords, K) ==
    {l \in [1..Len(coords) -> 0..(K - 1)] :
        /\ \A i, j \in 1..Len(coords) : coords[i] = coords[j] => l[i] = l[j]
        /\ Cardinality(Range(l)) = MinInt(K, Cardinality(Range(coords)))}

RECURSIVE SumOver(_, _)
SumOver(S, f) ==
    IF S = {} THEN 0
    ELSE LET x == CHOOSE y \in S : TRUE IN f[x] + SumOver(S \ {x}, f)

\* kmeans.cluster_centers_: the mean of the samples of each cluster; the
\* centre of a cluster without samples is a point `spare` of the sample
\* (no row ever refers to it).
ClusterCenters(coords, labels, K, spare) ==
    [k \in 0..(K - 1) |->
        LET members == {i \in 1..Len(coords) : labels[i] = k} IN
        IF members = {} THEN spare
        ELSE <<SumOver(members, [i \in members |-> coords[i][1]]) \div Cardinality(members),
               SumOver(members, [i \in members |-> coords[i][2]]) \div Cardinality(members)>>]

\* x.value_counts().idxmax(): the most frequent label
Mode(ls) ==
    CHOOSE v \in Range(ls) :
        \A w \in Range(ls) :
            Cardinality({i \in DOMAIN ls : ls[i] = v}) >= Cardinality({i \in DOMAIN ls : ls[i] = w})

\* A label table taken from the repeated rows without grouping them.
LabelMapUngrouped(coords, labels) ==
    [i \in 1..Len(coords) |-> [coord |-> coords[i], cluster |-> labels[i]]]

\* label_map: one row per rounded coordinate with the mode of the labels
\* of its repeated rows.
LabelMap(coords, labels) ==
    LET keys == SortedCoords(Range(coords)) IN
    [k \in 1..Len(keys) |->
        [coord |-> keys[k],
         cluster |-> Mode(SelectSeq(
                        [i \in 1..Len(coords) |-> IF coords[i] = keys[k] THEN labels[i] ELSE -1],
                        LAMBDA v : v >= 0))]]

\* df.merge(label_map, on=[lat_rounded, long_rounded], how='left'): one
\* output row per matching row of label_map, one row with NaN if there is none.
MergeLabels(rows, label_map) ==
    Flatten([i \in 1..Len(rows) |->
        LET ms == SelectSeq(label_map,
                            LAMBDA e : rows[i].centroid.ok /\ e.coord = Rounded(rows[i]))
        IN IF ms = <<>> THEN <<[rows[i] EXCEPT !.cluster = NoCluster]>>
           ELSE [j \in 1..Len(ms) |->
                   [rows[i] EXCEPT !.cluster = [ok |-> TRUE, id |-> ms[j].cluster]]]])

\* centroid_coord taken from the row's own rounded coordinate.
MergeCentroidsRounded(rows, centers) ==
    [i \in 1..Len(rows) |->
        IF rows[i].cluster.ok /\ rows[i].cluster.id \in DOMAIN centers
        THEN [rows[i] EXCEPT !.centroid_coord =
                 [ok |-> TRUE, latitude |-> Rounded(rows[i])[1], longitude |-> Rounded(rows[i])[2]]]
        ELSE [rows[i] EXCEPT !.centroid_coord = NoValue]]

\* df.merge(cluster_centroids, on='cluster', how='left') and the
\* centroid_coord column "(%.4f, %.4f)" (None where cluster is null).
MergeCentroids(rows, centers) ==
    [i \in 1..Len(rows) |->
        IF rows[i].cluster.ok /\ rows[i].cluster.id \in DOMAIN centers
        THEN [rows[i] EXCEPT !.centroid_coord =
                 [ok |-> TRUE,
                  latitude |-> Round4(centers[rows[i].cluster.id][1]),
                  longitude |-> Round4(centers[rows[i].cluster.id][2])]]
        ELSE [rows[i] EXCEPT !.centroid_coord = NoValue]]

\* _perform_clustering for one outcome (labels, spare) of k-means; the
\* except branch returns the frame without cluster columns.
PerformClustering(rows, K, labels, spare) ==
    LET coords == RepeatedRows(FreqDf(rows)) IN
    IF KMeansRaises(coords, K)
    THEN [clustered |-> FALSE, rows |-> rows]
    ELSE [clustered |-> TRUE,
          rows |-> MergeCentroids(MergeLabels(rows, LabelMap(coords, labels)),
                                  ClusterCenters(coords, labels, K, spare))]

\* str(int(cluster))
Digits == <<"0", "1", "2", "3", "4", "5", "6", "7", "8", "9">>
StrInt(k) == Digits[k + 1]

RECURSIVE DropDuplicates(_)
\* drop_duplicates(): the first occurrence of every row, in order
DropDuplicates(seq) ==
    IF seq = <<>> THEN <<>>
    ELSE LET front == DropDuplicates(SubSeq(seq, 1, Len(seq) - 1))
             last == seq[Len(seq)]
         IN IF \E i \in 1..Len(front) : front[i] = last THEN front ELSE Append(front, last)

\* The rows save_centroids iterates over: the distinct (cluster,
\* centroid_coord) pairs in the order of the frame, without cluster -1.
CentroidPairs(rows) ==
    SelectSeq(
        DropDuplicates([i \in 1..Len(rows) |->
            [cluster |-> rows[i].cluster, centroid_coord |-> rows[i].centroid_coord]]),
        LAMBDA c : ~(c.cluster.ok /\ c.cluster.id = -1))

\* row['centroid_coord'].strip(...) raises on a row without centroid_coord.
SaveRaises(df) ==
    \/ ~df.clustered                                      \* no 'cluster' column
    \/ \E i \in 1..Len(CentroidPairs(df.rows)) : ~CentroidPairs(df.rows)[i].centroid_coord.ok

RECURSIVE DictOf(_)
\* A dict filled in the order of `entries`: a key met again keeps its place
\* and takes the later value.
DictOf(entries) ==
    IF entries = <<>> THEN <<>>
    ELSE LET front == DictOf(SubSeq(entries, 1, Len(entries) - 1))
             last == entries[Len(entries)]
         IN IF \E i \in 1..Len(front) : front[i].key = last.key
            THEN [i \in 1..Len(front) |-> IF front[i].key = last.key THEN last ELSE front[i]]
            ELSE Append(front, last)

\* centroids_dict, as json.dump writes it: entries in insertion order
CentroidsDict(rows) ==
    LET pairs == CentroidPairs(rows) IN
    DictOf([i \in 1..Len(pairs) |->
              [key |-> StrInt(pairs[i].cluster.id),
               latitude |-> pairs[i].centroid_coord.latitude,
               longitude |-> pairs[i].centroid_coord.longitude]])

NoFile == [exists |-> FALSE, run |-> 0, data |-> <<>>]
\* an artifact left by an earlier clustering
OldFile == [exists |-> TRUE, run |-> 0,
            data |-> <<[key |-> "0", latitude |-> 0, longitude |-> 0]>>]

NoFrame == [clustered |-> FALSE, rows |-> <<>>]
\* no k-means call yet
NoFit == [coords |-> <<>>, labels |-> <<>>]

\* Every row of the file, with its centroid columns.
CentroidRowsAll(rows) ==
    [i \in 1..Len(rows) |->
        [geom |-> rows[i].geom, centroid |-> CalculateCentroid(rows[i].geom),
         cluster |-> NoCluster, centroid_coord |-> NoValue]]

\* the rows validate_data leaves (dropna on ZONE_CMPLT) with their centroid columns
CentroidRows(rows) ==
    LET kept == SelectSeq(rows, LAMBDA r : r.zone) IN
    [i \in 1..Len(kept) |->
        [geom |-> kept[i].geom, centroid |-> CalculateCentroid(kept[i].geom),
         cluster |-> NoCluster, centroid_coord |-> NoValue]]

\* The k-means outcomes for the rows of a frame.
KMeansOutcomes(rows, K) ==
    LET coords == RepeatedRows(FreqDf(rows)) IN
    IF KMeansRaises(coords, K) THEN {[labels |-> <<>>, spare |-> <<0, 0>>]}
    ELSE {[labels |-> l, spare |-> s] : l \in KMeansLabels(coords, K), s \in Range(coords)}

\* CSVLoader.load_data -> _load_zoning_data, the whole call: validate,
\* centroids, clustering, save_centroids.
LoadZoning(tag) ==
    IF ~zoning_file.exists \/ Len(zoning_file.rows) = 0
    THEN \* FileNotFoundError / ValueError("Invalid zoning data format")
         /\ load_status' = "raised"
         /\ zoning_df' = NoFrame
         /\ clustering' = "not_run"
         /\ kmeans' = NoFit
         /\ UNCHANGED centroids_file
    ELSE \E km \in KMeansOutcomes(CentroidRows(zoning_file.rows), n_clusters) :
         LET df == PerformClustering(CentroidRows(zoning_file.rows), n_clusters,
                                     km.labels, km.spare)
         IN /\ clustering' = IF df.clustered THEN "clustered" ELSE "swallowed"
            /\ kmeans' = [coords |-> RepeatedRows(FreqDf(CentroidRows(zoning_file.rows))),
                          labels |-> km.labels]
            /\ zoning_df' = df
            /\ IF SaveRaises(df)
               THEN /\ load_status' = "raised"
                    /\ UNCHANGED centroids_file
               ELSE /\ load_status' = "returned"
                    /\ centroids_file' =
                          [exists |-> TRUE, run |-> tag, data |-> CentroidsDict(df.rows)]

\* CSVLoader(config).load_data() called on its own.
LoadData ==
    /\ load_status = "pending"
    /\ run = 0
    /\ LoadZoning(1)
    /\ UNCHANGED <<zoning_file, n_clusters, run>>
    /\ UNCHANGED <<rank_vars, pipeline_vars, profile_vars, processor_vars, main_vars>>

----------------------------------------------------------------------------
(***************************************************************************)
(* load_data_sources: Yelp, then the zoning CSV, then OpenTable            *)
(***************************************************************************)

Businesses == {"b1", "b2"}
\* what one centroid query may return
Responses == {<<>>, <<"b1">>, <<"b1", "b2">>}

NotRun == [status |-> "not_run", run |-> 0, centroids |-> <<>>, responses |-> <<>>, data |-> <<>>]
\* _load_centroids raised FileNotFoundError in the constructor
NoCentroids == [status |-> "raised", run |-> 0, centroids |-> <<>>, responses |-> <<>>, data |-> <<>>]

\* drop_duplicates with keep='last'.
DropDuplicateIdsKeepLast(seq) ==
    LET keep == {i \in 1..Len(seq) : \A j \in (i + 1)..Len(seq) : seq[j].id # seq[i].id} IN
    [k \in 1..Cardinality(keep) |->
        seq[CHOOSE i \in keep : Cardinality({j \in keep : j < i}) = k - 1]]

RECURSIVE DropDuplicateIds(_)
\* drop_duplicates(subset=[id], keep='first'); an empty frame stays empty
DropDuplicateIds(seq) ==
    IF seq = <<>> THEN <<>>
    ELSE LET front == DropDuplicateIds(SubSeq(seq, 1, Len(seq) - 1))
             last == seq[Len(seq)]
         IN IF \E i \in 1..Len(front) : front[i].id = last.id THEN front ELSE Append(front, last)

\* Every item tagged with the key the loop variable holds after the loop.
TaggedRecordsLast(centroids, responses) ==
    DropDuplicateIds(Flatten([i \in 1..Len(centroids) |->
        [j \in 1..Len(responses[i]) |->
            [id |-> responses[i][j], cluster_id |-> centroids[Len(centroids)].key]]]))

\* load_data of a geo-tagging loader: one query per centroid in the order
\* of the artifact, every returned item tagged with that cluster id.
TaggedRecords(centroids, responses) ==
    DropDuplicateIds(Flatten([i \in 1..Len(centroids) |->
        [j \in 1..Len(responses[i]) |->
            [id |-> responses[i][j], cluster_id |-> centroids[i].key]]]))

\* A load_data in which an empty frame has no 'id' column to deduplicate on.
GeoTagLoaderKeyError ==
    IF ~centroids_file.exists THEN {NoCentroids}
    ELSE {[status |-> IF TaggedRecords(centroids_file.data, r) = <<>> THEN "raised" ELSE "loaded",
           run |-> centroids_file.run,
           centroids |-> centroids_file.data, responses |-> r,
           data |-> TaggedRecords(centroids_file.data, r)] :
             r \in [1..Len(centroids_file.data) -> Responses]}

\* A loader that starts with no centroids when the artifact is missing.
GeoTagLoaderDefault ==
    IF ~centroids_file.exists
    THEN {[status |-> "loaded", run |-> 0, centroids |-> <<>>, responses |-> <<>>, data |-> <<>>]}
    ELSE {[status |-> "loaded", run |-> centroids_file.run,
           centroids |-> centroids_file.data, responses |-> r,
           data |-> TaggedRecords(centroids_file.data, r)] :
             r \in [1..Len(centroids_file.data) -> Responses]}

\* Constructing a loader and calling its load_data, as load_data_sources
\* does inside one try block.
GeoTagLoader ==
    IF ~centroids_file.exists THEN {NoCentroids}
    ELSE {[status |-> "loaded", run |-> centroids_file.run,
           centroids |-> centroids_file.data, responses |-> r,
           data |-> TaggedRecords(centroids_file.data, r)] :
             r \in [1..Len(centroids_file.data) -> Responses]}

\* the zoning files of the pipeline runs
Row(g) == [zone |-> TRUE, geom |-> g]
Shape(x, y) == [ok |-> TRUE, x |-> x, y |-> y]
PipelineFiles ==
    {[exists |-> FALSE, rows |-> <<>>],
     [exists |-> TRUE, rows |-> <<Row(Shape(0, 0)), Row(Shape(0, 10))>>],
     [exists |-> TRUE, rows |-> <<Row(Shape(0, 10)), Row(Shape(0, 4)), Row(Shape(0, 0))>>],
     [exists |-> TRUE, rows |-> <<Row(Shape(0, 0)), Row(Shape(0, 10)), Row(Shape(14, 10))>>],
     [exists |-> TRUE, rows |-> <<Row(Shape(0, 0)), Row(Malformed), Row(Shape(0, 10))>>]}

\* main.py 30-38
YelpStep ==
    /\ pc = "yelp"
    /\ \E l \in GeoTagLoader :
         /\ yelp' = l
         /\ raw_data' = IF l.status = "loaded" /\ l.data # <<>>
                        THEN raw_data \cup {"Yelp"} ELSE raw_data
    /\ pc' = "csv"
    /\ UNCHANGED <<opentable, zoning_vars, rank_vars, profile_vars, processor_vars, main_vars>>

\* main.py 40-48: load_data returns a dict, so csv_data.empty raises
\* AttributeError inside the try and 'CSV' is never stored.
CsvStep ==
    /\ pc = "csv"
    /\ LoadZoning(run)
    /\ pc' = "opentable"
    /\ UNCHANGED <<zoning_file, n_clusters, run, yelp, opentable, raw_data, rank_vars, profile_vars, processor_vars, main_vars>>

\* main.py 50-60
OpenTableStep ==
    /\ pc = "opentable"
    /\ \E l \in GeoTagLoader :
         /\ opentable' = l
         /\ raw_data' = IF l.status = "loaded" /\ l.data # <<>>
                        THEN raw_data \cup {"OpenTable"} ELSE raw_data
    /\ pc' = "done"
    /\ UNCHANGED <<yelp, zoning_vars, rank_vars, profile_vars, processor_vars, main_vars>>

\* load_data_sources is called again (a later run of main.py); the zoning
\* file may have been replaced meanwhile.
NextRun ==
    /\ pc = "done"
    /\ run < MaxRuns
    /\ run' = run + 1
    /\ pc' = "yelp"
    /\ zoning_file' \in PipelineFiles
    /\ zoning_df' = NoFrame
    /\ clustering' = "not_run"
    /\ kmeans' = NoFit
    /\ load_status' = "pending"
    /\ yelp' = NotRun
    /\ opentable' = NotRun
    /\ raw_data' = {}
    /\ UNCHANGED <<n_clusters, centroids_file, rank_vars, profile_vars, processor_vars, main_vars>>

PipelineNext == YelpStep \/ CsvStep \/ OpenTableStep \/ NextRun

----------------------------------------------------------------------------
(***************************************************************************)
(* get_cluster_profiles                                                    *)
(***************************************************************************)

\* Category labels, as strings (sequences of characters).
Bar == <<"B", "a", "r">>
Barbecue == <<"B", "a", "r", "b", "e", "c", "u", "e">>

\* the category lists of the records
CategoryLists == {<<>>, <<Bar>>, <<Barbecue>>, <<Barbecue, Bar>>}

NoCategory == [given |-> FALSE, name |-> <<>>]
Targets == {NoCategory, [given |-> TRUE, name |-> Bar], [given |-> TRUE, name |-> Barbecue]}

\* (review_count, rating, price_category) of a record
RecordStats == {[review_count |-> 1, rating |-> 2, price_category |-> 1],
                [review_count |-> 3, rating |-> 5, price_category |-> 2]}

NoData == [flagged |-> FALSE, rows |-> <<>>]

\* what a record may be: (cluster id, stats, category list)
RecordKinds == {0, 1} \X RecordStats \X CategoryLists

\* A combined table as analyze_data reads it: unique ids, every record
\* tagged with a cluster id, no has_target_category column.
CombinedTable(f) ==
    [flagged |-> FALSE,
     rows |-> [i \in DOMAIN f |->
                 [id |-> i, cluster_id |-> f[i][1],
                  review_count |-> f[i][2].review_count, rating |-> f[i][2].rating,
                  price_category |-> f[i][2].price_category,
                  categories |-> f[i][3], has_target_category |-> FALSE]]]

RECURSIVE JoinLabels(_)
\* 'a', 'b', ...
JoinLabels(labels) ==
    IF labels = <<>> THEN <<>>
    ELSE <<"'">> \o Head(labels) \o <<"'">>
         \o (IF Len(labels) > 1 THEN <<",", " ">> ELSE <<>>) \o JoinLabels(Tail(labels))

\* The categories cell as pd.read_csv returns it in analyze_data: the text
\* to_csv wrote for the list, "['a', 'b']".
CsvCell(labels) == <<"[">> \o JoinLabels(labels) \o <<"]">>

\* needle in hay, for two strings
IsSubstring(needle, hay) ==
    \E i \in 0..(Len(hay) - Len(needle)) : SubSeq(hay, i + 1, i + Len(needle)) = needle

\* lambda cats: target_category in cats
HasTargetCategory(record, target) == IsSubstring(target, CsvCell(record.categories))

\* df['has_target_category'] = ... : the column is added to the caller's frame
FlagRows(df, target) ==
    IF ~target.given THEN df
    ELSE [flagged |-> TRUE,
          rows |-> [i \in 1..Len(df.rows) |->
                      [df.rows[i] EXCEPT !.has_target_category =
                                              HasTargetCategory(df.rows[i], target.name)]]]

\* cat_df: a copy of df, or the rows whose flag is True (df is flagged already)
SelectedRows(df, target) ==
    IF ~target.given THEN df.rows
    ELSE SelectSeq(df.rows, LAMBDA r : r.has_target_category)

\* the keys of groupby('cluster_id'), ascending
SortedIds(S) ==
    CHOOSE q \in [1..Cardinality(S) -> S] : \A i, j \in 1..Cardinality(S) : i < j => q[i] < q[j]

InCluster(rows, c) == {i \in 1..Len(rows) : rows[i].cluster_id = c}

\* The renamed columns exchanged: category_count from the review_count sum.
AggregateRenamed(rows) ==
    LET ids == SortedIds({rows[i].cluster_id : i \in 1..Len(rows)}) IN
    [k \in 1..Len(ids) |->
        LET members == InCluster(rows, ids[k]) IN
        [cluster_id |-> ids[k],
         category_count |-> SumOver(members, [i \in members |-> rows[i].review_count]),
         total_footfall |-> Cardinality(members),
         avg_rating |-> [sum |-> SumOver(members, [i \in members |-> rows[i].rating]),
                         n |-> Cardinality(members)],
         avg_price |-> [sum |-> SumOver(members, [i \in members |-> rows[i].price_category]),
                        n |-> Cardinality(members)]]]

\* A sum column taken as a count.
AggregateCounting(rows) ==
    LET ids == SortedIds({rows[i].cluster_id : i \in 1..Len(rows)}) IN
    [k \in 1..Len(ids) |->
        LET members == InCluster(rows, ids[k]) IN
        [cluster_id |-> ids[k],
         category_count |-> Cardinality(members),
         total_footfall |-> Cardinality(members),
         avg_rating |-> [sum |-> SumOver(members, [i \in members |-> rows[i].rating]),
                         n |-> Cardinality(members)],
         avg_price |-> [sum |-> SumOver(members, [i \in members |-> rows[i].price_category]),
                        n |-> Cardinality(members)]]]

\* cat_df.groupby('cluster_id').agg(count, sum, mean, mean); a mean is kept
\* as the pair (sum, n) it is the quotient of.
Aggregate(rows) ==
    LET ids == SortedIds({rows[i].cluster_id : i \in 1..Len(rows)}) IN
    [k \in 1..Len(ids) |->
        LET members == InCluster(rows, ids[k]) IN
        [cluster_id |-> ids[k],
         category_count |-> Cardinality(members),
         total_footfall |-> SumOver(members, [i \in members |-> rows[i].review_count]),
         avg_rating |-> [sum |-> SumOver(members, [i \in members |-> rows[i].rating]),
                         n |-> Cardinality(members)],
         avg_price |-> [sum |-> SumOver(members, [i \in members |-> rows[i].price_category]),
                        n |-> Cardinality(members)]]]

\* The count taken over the selected rows.
BusinessDensityOfSelected(df_rows, cat_rows, c) == Cardinality(InCluster(cat_rows, c))

\* df.groupby('cluster_id')['id'].count() for one cluster: over the whole df
BusinessDensity(df_rows, cat_rows, c) == Cardinality(InCluster(df_rows, c))

Densified(row, df_rows, cat_rows) ==
    [cluster_id |-> row.cluster_id, category_count |-> row.category_count,
     total_footfall |-> row.total_footfall, avg_rating |-> row.avg_rating,
     avg_price |-> row.avg_price,
     business_density |-> BusinessDensity(df_rows, cat_rows, row.cluster_id)]

\* A join that keeps every cluster of the density table (how='right').
JoinDensityRight(stats, df_rows, cat_rows) ==
    LET ids == SortedIds({df_rows[i].cluster_id : i \in 1..Len(df_rows)}) IN
    [k \in 1..Len(ids) |->
        IF \E j \in 1..Len(stats) : stats[j].cluster_id = ids[k]
        THEN Densified(stats[CHOOSE j \in 1..Len(stats) : stats[j].cluster_id = ids[k]],
                       df_rows, cat_rows)
        ELSE Densified([cluster_id |-> ids[k], category_count |-> 0, total_footfall |-> 0,
                        avg_rating |-> [sum |-> 0, n |-> 0],
                        avg_price |-> [sum |-> 0, n |-> 0]], df_rows, cat_rows)]

\* cluster_stats.join(total_cluster_businesses): a left join on cluster_id
JoinDensity(stats, df_rows, cat_rows) ==
    [k \in 1..Len(stats) |-> Densified(stats[k], df_rows, cat_rows)]

\* get_cluster_profiles(df, target_category), the whole call.
GetClusterProfiles ==
    /\ profile_status = "pending"
    /\ LET df == FlagRows(combined_data, target_category)
           cat_rows == SelectedRows(df, target_category)
       IN /\ combined_data' = df
          /\ cluster_stats' = JoinDensity(Aggregate(cat_rows), df.rows, cat_rows)
    /\ profile_status' = "returned"
    /\ UNCHANGED target_category
    /\ UNCHANGED <<rank_vars, zoning_vars, pipeline_vars, processor_vars, main_vars>>

----------------------------------------------------------------------------
(***************************************************************************)
(* The price tiers of the data processor                                   *)
(***************************************************************************)

\* price_map of _process_yelp_data
YelpPriceMap == [l \in {"$", "$$", "$$$", "$$$$"} |->
                    IF l = "$" THEN 1 ELSE IF l = "$$" THEN 2 ELSE IF l = "$$$" THEN 3 ELSE 4]
\* price_map of _process_opentable_data
OpenTablePriceMap ==
    [l \in {"Budget", "Moderate", "Expensive", "Very Expensive"} |->
        IF l = "Budget" THEN 1 ELSE IF l = "Moderate" THEN 2 ELSE IF l = "Expensive" THEN 3 ELSE 4]

\* What a price / priceBand cell may hold: a label of either source, a
\* label of neither, or nothing ("" stands for a missing value).
PriceLabels == DOMAIN YelpPriceMap \cup DOMAIN OpenTablePriceMap \cup {"Free", ""}

NaN == [nan |-> TRUE, value |-> 0]

\* Series.map(price_map): NaN for a cell that is not a key
MapPrice(label, price_map) ==
    IF label \in DOMAIN price_map THEN [nan |-> FALSE, value |-> price_map[label]] ELSE NaN

\* No fill: the cell is left as map returned it.
FillNaSkipped(cell, default) == cell

\* .fillna(default)
FillNa(cell, default) == IF cell.nan THEN [nan |-> FALSE, value |-> default] ELSE cell

\* processed['price_category'] = processed[column].map(price_map).fillna(2)
PriceCategories(labels, price_map) ==
    [i \in 1..Len(labels) |-> FillNa(MapPrice(labels[i], price_map), 2)]

NoPrices == [source |-> "yelp", has_column |-> TRUE, labels |-> <<>>,
             status |-> "returned", price_category |-> <<>>]

\* The price step of a processor; a frame without the source column makes
\* processed[column] raise KeyError.
ProcessPrices(price_map) ==
    IF ~price_run.has_column
    THEN price_run' = [price_run EXCEPT !.status = "raised"]
    ELSE price_run' = [price_run EXCEPT !.status = "returned",
                          !.price_category = PriceCategories(price_run.labels, price_map)]

ProcessYelpData ==
    /\ price_run.status = "pending"
    /\ price_run.source = "yelp"
    /\ ProcessPrices(YelpPriceMap)
    /\ UNCHANGED <<rank_vars, zoning_vars, pipeline_vars, profile_vars, main_vars>>

ProcessOpenTableData ==
    /\ price_run.status = "pending"
    /\ price_run.source = "opentable"
    /\ ProcessPrices(OpenTablePriceMap)
    /\ UNCHANGED <<rank_vars, zoning_vars, pipeline_vars, profile_vars, main_vars>>

ProcessorNext == ProcessYelpData \/ ProcessOpenTableData

----------------------------------------------------------------------------
(***************************************************************************)
(* main: process_data, analyze_data, analyze_clusters and the dashboard's  *)
(* choice of a ranked file.  File names are strings (sequences of          *)
(* characters).                                                            *)
(***************************************************************************)

\* not yet run
NotProcessed == [status |-> "not_run", wrote |-> 0]
NotAnalyzed == [status |-> "not_run", input |-> 0, files |-> {}]

UpperCase == <<"A", "B", "C", "D", "E", "F", "G", "H", "I", "J", "K", "L", "M",
               "N", "O", "P", "Q", "R", "S", "T", "U", "V", "W", "X", "Y", "Z">>
LowerCase == <<"a", "b", "c", "d", "e", "f", "g", "h", "i", "j", "k", "l", "m",
               "n", "o", "p", "q", "r", "s", "t", "u", "v", "w", "x", "y", "z">>

\* str.lower()
Lower(str) ==
    [i \in 1..Len(str) |->
        IF \E k \in 1..26 : UpperCase[k] = str[i]
        THEN LowerCase[CHOOSE k \in 1..26 : UpperCase[k] = str[i]]
        ELSE str[i]]

RECURSIVE Replace(_, _, _)
\* str.replace(old, new), old not empty
Replace(str, old, new) ==
    IF Len(str) < Len(old) THEN str
    ELSE IF SubSeq(str, 1, Len(old)) = old
         THEN new \o Replace(SubSeq(str, Len(old) + 1, Len(str)), old, new)
         ELSE <<Head(str)>> \o Replace(Tail(str), old, new)

LowCapital ==
    <<"L", "o", "w", " ", "C", "a", "p", "i", "t", "a", "l">>
HighCapital ==
    <<"H", "i", "g", "h", " ", "C", "a", "p", "i", "t", "a", "l">>
LowRisk ==
    <<"L", "o", "w", " ", "R", "i", "s", "k">>
HighRisk ==
    <<"H", "i", "g", "h", " ", "R", "i", "s", "k">>
ClusterAnalysis ==
    <<"c", "l", "u", "s", "t", "e", "r", "_", "a", "n", "a", "l", "y", "s", "i", "s">>
DotCsv ==
    <<".", "c", "s", "v">>
AllSuffix ==
    <<"_", "a", "l", "l">>

\* 'Low Capital, Low Risk' and the like
StrategyName(capital_level, risk_level) == capital_level \o <<",", " ">> \o risk_level

\* the strategies list of analyze_clusters, in its order
Strategies ==
    <<StrategyName(LowCapital, LowRisk), StrategyName(HighCapital, HighRisk),
      StrategyName(LowCapital, HighRisk), StrategyName(HighCapital, LowRisk)>>

\* pd.Timestamp.now().strftime(...) at second t, shortened to two digits
Timestamp(t) == <<"0", StrInt(t)>>

\* cluster_analysis{category_suffix}_{strategy_name.lower().replace(", ", "_")}_{timestamp}.csv
OutputFileName(strategy_name, category, stamp) ==
    ClusterAnalysis
      \o (IF category.given THEN <<"_">> \o Lower(category.name) ELSE AllSuffix)
      \o <<"_">> \o Replace(Lower(strategy_name), <<",", " ">>, <<"_">>)
      \o <<"_">> \o stamp \o DotCsv

\* analyze_clusters: one ranked file per strategy; the clock may tick once
\* during the loop, after `early` files.
AnalyzeClusters(category, early) ==
    {OutputFileName(Strategies[i], category, Timestamp(IF i <= early THEN 1 ELSE 2)) :
        i \in 1..Len(Strategies)}

\* streamlit_app.py: f"cluster_analysis_{capital_level}_{risk_level}.csv".replace(' ', '_')
StrategyPattern(capital_level, risk_level) ==
    Replace(ClusterAnalysis \o <<"_">> \o capital_level \o <<"_">> \o risk_level \o DotCsv,
            <<" ">>, <<"_">>)

\* strategy_pattern.lower() in os.path.basename(file_path).lower()
Matches(pattern, file_name) == IsSubstring(Lower(pattern), Lower(file_name))

\* The file with the greatest name.
LatestFileByName(files) == CHOOSE f \in files : \A g \in files : g.name <= f.name

\* max(combined_files, key=lambda x: x.stat().st_mtime)
LatestFile(files) == CHOOSE f \in files : \A g \in files : g.mtime <= f.mtime

\* the file process_restaurant_data writes now: a new name, the newest mtime
NewFile(files) == [name |-> Cardinality(files) + 1, mtime |-> Cardinality(files) + 1]

\* source_name.lower() of save_processed_data's file name
SourceFile(source_name) == IF source_name = "Yelp" THEN "yelp" ELSE "opentable"

\* where main goes after process_data returned
AfterProcess == IF mode = "both" THEN "analyze" ELSE "done"

\* process_data: load, save each source, combine.  process_restaurant_data
\* raises when a source has no file in data/semi_processed or (data_ok =
\* FALSE) when the files cannot be processed; the exception leaves main.
ProcessData ==
    /\ main_pc = "process"
    /\ \E loaded \in SUBSET {"Yelp", "OpenTable"} : \E data_ok \in BOOLEAN :
         /\ raw_data' = loaded
         /\ IF loaded = {}
            THEN /\ process_result' = [status |-> "returned", wrote |-> 0]
                 /\ main_pc' = AfterProcess
                 /\ UNCHANGED <<semi_processed, processed_dir>>
            ELSE /\ semi_processed' = semi_processed \cup {SourceFile(src) : src \in loaded}
                 /\ IF semi_processed' = {"yelp", "opentable"} /\ data_ok
                    THEN /\ processed_dir' = processed_dir \cup {NewFile(processed_dir)}
                         /\ process_result' = [status |-> "returned",
                                               wrote |-> NewFile(processed_dir).name]
                         /\ main_pc' = AfterProcess
                    ELSE /\ process_result' = [status |-> "raised", wrote |-> 0]
                         /\ main_pc' = "failed"
                         /\ UNCHANGED processed_dir
    /\ UNCHANGED <<mode, analysis, final_output>>
    /\ UNCHANGED <<pc, yelp, opentable, rank_vars, zoning_vars, profile_vars, processor_vars>>

\* analyze_data(category): FileNotFoundError without a combined file, else
\* analyze_clusters on the most recently modified one.
AnalyzeData ==
    /\ main_pc = "analyze"
    /\ IF processed_dir = {}
       THEN /\ analysis' = [status |-> "raised", input |-> 0, files |-> {}]
            /\ main_pc' = "failed"
            /\ UNCHANGED final_output
       ELSE \E early \in 0..Len(Strategies) :
            /\ analysis' = [status |-> "returned", input |-> LatestFile(processed_dir).name,
                            files |-> AnalyzeClusters(target_category, early)]
            /\ final_output' = final_output \cup AnalyzeClusters(target_category, early)
            /\ main_pc' = "done"
    /\ UNCHANGED <<mode, semi_processed, processed_dir, process_result>>
    /\ UNCHANGED <<rank_vars, zoning_vars, pipeline_vars, profile_vars, processor_vars>>

MainNext == ProcessData \/ AnalyzeData

\* rank_clusters is called on a table of get_cluster_profiles; nothing
\* else runs.
RankInit ==
    /\ cluster_df \in ProfileTables
    /\ capital \in Levels
    /\ risk \in Levels
    /\ rank_status = "pending"
    /\ ranked = NoTable
    /\ zoning_file = [exists |-> FALSE, rows |-> <<>>] /\ n_clusters = 0
    /\ zoning_df = NoFrame /\ clustering = "not_run" /\ kmeans = NoFit
    /\ load_status = "returned"
    /\ centroids_file = NoFile /\ run = 0
    /\ pc = "idle" /\ yelp = NotRun /\ opentable = NotRun /\ raw_data = {}
    /\ combined_data = NoData /\ target_category = NoCategory
    /\ cluster_stats = <<>> /\ profile_status = "returned"
    /\ price_run = NoPrices /\ mode = "both" /\ main_pc = "idle"
    /\ semi_processed = {} /\ processed_dir = {} /\ process_result = NotProcessed
    /\ analysis = NotAnalyzed /\ final_output = {}

\* A CSVLoader with a configured n_clusters is about to load a zoning file.
ZoningInit ==
    /\ zoning_file \in ZoningFiles
    /\ n_clusters \in 0..MaxK
    /\ zoning_df = NoFrame
    /\ clustering = "not_run"
    /\ kmeans = NoFit
    /\ load_status = "pending"
    /\ centroids_file \in {NoFile, OldFile}
    /\ run = 0
    /\ pc = "idle" /\ yelp = NotRun /\ opentable = NotRun /\ raw_data = {}
    /\ cluster_df = NoTable /\ capital = "Low" /\ risk = "Low"
    /\ rank_status = "returned" /\ ranked = NoTable
    /\ combined_data = NoData /\ target_category = NoCategory
    /\ cluster_stats = <<>> /\ profile_status = "returned"
    /\ price_run = NoPrices /\ mode = "both" /\ main_pc = "idle"
    /\ semi_processed = {} /\ processed_dir = {} /\ process_result = NotProcessed
    /\ analysis = NotAnalyzed /\ final_output = {}

\* load_data_sources starts its first run.
PipelineInit ==
    /\ zoning_file \in PipelineFiles
    /\ n_clusters = DefaultClusters
    /\ zoning_df = NoFrame
    /\ clustering = "not_run"
    /\ kmeans = NoFit
    /\ load_status = "pending"
    /\ centroids_file \in {NoFile, OldFile}
    /\ run = 1
    /\ pc = "yelp"
    /\ yelp = NotRun
    /\ opentable = NotRun
    /\ raw_data = {}
    /\ cluster_df = NoTable /\ capital = "Low" /\ risk = "Low"
    /\ rank_status = "returned" /\ ranked = NoTable
    /\ combined_data = NoData /\ target_category = NoCategory
    /\ cluster_stats = <<>> /\ profile_status = "returned"
    /\ price_run = NoPrices /\ mode = "both" /\ main_pc = "idle"
    /\ semi_processed = {} /\ processed_dir = {} /\ process_result = NotProcessed
    /\ analysis = NotAnalyzed /\ final_output = {}

SpecZoning == ZoningInit /\ [][LoadData]_vars

SpecRank == RankInit /\ [][RankNext]_vars

SpecPipeline == PipelineInit /\ [][PipelineNext]_vars

\* get_cluster_profiles is called on a combined table, with or without a
\* target category.
ProfileInit ==
    /\ \E n \in 0..MaxBusinesses : \E f \in [1..n -> RecordKinds] :
          combined_data = CombinedTable(f)
    /\ target_category \in Targets
    /\ cluster_stats = <<>>
    /\ profile_status = "pending"
    /\ cluster_df = NoTable /\ capital = "Low" /\ risk = "Low"
    /\ rank_status = "returned" /\ ranked = NoTable
    /\ zoning_file = [exists |-> FALSE, rows |-> <<>>] /\ n_clusters = 0
    /\ zoning_df = NoFrame /\ clustering = "not_run" /\ kmeans = NoFit
    /\ load_status = "returned"
    /\ centroids_file = NoFile /\ run = 0
    /\ pc = "idle" /\ yelp = NotRun /\ opentable = NotRun /\ raw_data = {}
    /\ price_run = NoPrices /\ mode = "both" /\ main_pc = "idle"
    /\ semi_processed = {} /\ processed_dir = {} /\ process_result = NotProcessed
    /\ analysis = NotAnalyzed /\ final_output = {}

SpecProfiles == ProfileInit /\ [][GetClusterProfiles]_vars

\* A processor is called on a source table with its price column.
ProcessorInit ==
    /\ \E n \in 0..MaxListings : \E l \in [1..n -> PriceLabels] : \E src \in {"yelp", "opentable"} :
          \E col \in BOOLEAN :
             price_run = [source |-> src, has_column |-> col, labels |-> IF col THEN l ELSE <<>>,
                          status |-> "pending", price_category |-> <<>>]
    /\ mode = "both" /\ main_pc = "idle"
    /\ semi_processed = {} /\ processed_dir = {} /\ process_result = NotProcessed
    /\ analysis = NotAnalyzed /\ final_output = {}
    /\ combined_data = NoData /\ target_category = NoCategory
    /\ cluster_stats = <<>> /\ profile_status = "returned"
    /\ cluster_df = NoTable /\ capital = "Low" /\ risk = "Low"
    /\ rank_status = "returned" /\ ranked = NoTable
    /\ zoning_file = [exists |-> FALSE, rows |-> <<>>] /\ n_clusters = 0
    /\ zoning_df = NoFrame /\ clustering = "not_run" /\ kmeans = NoFit
    /\ load_status = "returned"
    /\ centroids_file = NoFile /\ run = 0
    /\ pc = "idle" /\ yelp = NotRun /\ opentable = NotRun /\ raw_data = {}

SpecProcessor == ProcessorInit /\ [][ProcessorNext]_vars

\* main.py has parsed its arguments; earlier runs may have left source
\* files, combined files (modified in any order since) and ranked files.
MainInit ==
    /\ mode \in {"process", "analyze", "both"}
    /\ main_pc = IF mode = "analyze" THEN "analyze" ELSE "process"
    /\ target_category \in Targets
    /\ semi_processed \in SUBSET {"yelp", "opentable"}
    /\ \E n \in 0..MaxFiles : \E p \in Perms(n) :
          processed_dir = {[name |-> i, mtime |-> p[i]] : i \in 1..n}
    /\ process_result = NotProcessed
    /\ analysis = NotAnalyzed
    /\ final_output \in {{}, {OutputFileName(Strategies[1], NoCategory, Timestamp(1))}}
    /\ raw_data = {}
    /\ price_run = NoPrices
    /\ combined_data = NoData /\ cluster_stats = <<>> /\ profile_status = "returned"
    /\ cluster_df = NoTable /\ capital = "Low" /\ risk = "Low"
    /\ rank_status = "returned" /\ ranked = NoTable
    /\ zoning_file = [exists |-> FALSE, rows |-> <<>>] /\ n_clusters = 0
    /\ zoning_df = NoFrame /\ clustering = "not_run" /\ kmeans = NoFit
    /\ load_status = "returned"
    /\ centroids_file = NoFile /\ run = 0
    /\ pc = "idle" /\ yelp = NotRun /\ opentable = NotRun

SpecMain == MainInit /\ [][MainNext]_vars

----------------------------------------------------------------------------
(***************************************************************************)
(* Properties of the zoning clustering (checked under SpecZoning)          *)
(***************************************************************************)

\* the records handed to centroid extraction and clustering
KeptRows == CentroidRows(zoning_file.rows)
DistinctRounded == {Rounded(KeptRows[i]) : i \in {j \in 1..Len(KeptRows) : KeptRows[j].centroid.ok}}
ValidK == 1 <= n_clusters /\ n_clusters <= Cardinality(DistinctRounded)
LoadDone == load_status # "pending" /\ zoning_file.exists /\ Len(zoning_file.rows) > 0
WrittenThisRun == centroids_file.exists /\ centroids_file.run >= 1

\* C3: with some geometry strings that fail to parse (and a valid K for the
\* rest), load_data returns without raising, the failed records have no
\* cluster id, the others have one, and the artifact is written.
C3_ParseFailureNotFatal ==
    (/\ LoadDone /\ ValidK
     /\ \E i \in 1..Len(KeptRows) : ~KeptRows[i].centroid.ok)
        => /\ load_status = "returned"
           /\ WrittenThisRun
           /\ Len(zoning_df.rows) = Len(KeptRows)
           /\ \A i \in 1..Len(zoning_df.rows) :
                 zoning_df.rows[i].cluster.ok = zoning_df.rows[i].centroid.ok

\* C5: with K <= 0 or K greater than the number of distinct rounded
\* coordinates the run ends in an error, no record has a cluster id and no
\* artifact is written.
C5_BadKFailsWithoutResult ==
    (LoadDone /\ ~ValidK)
        => /\ load_status = "raised"
           /\ \A i \in 1..Len(zoning_df.rows) : ~zoning_df.rows[i].cluster.ok
           /\ ~WrittenThisRun

\* C6: for 1 <= K <= distinct rounded coordinates and a non-empty set of
\* records that all have a centroid, _perform_clustering keeps the records
\* as they are (same number, same order) and gives each one cluster id in
\* 0..K-1.
C6_EveryRecordOneCluster ==
    (/\ LoadDone /\ ValidK
     /\ \A i \in 1..Len(KeptRows) : KeptRows[i].centroid.ok)
        => /\ clustering = "clustered"
           /\ Len(zoning_df.rows) = Len(KeptRows)
           /\ \A i \in 1..Len(zoning_df.rows) :
                 /\ zoning_df.rows[i].geom = KeptRows[i].geom
                 /\ zoning_df.rows[i].cluster.ok
                 /\ zoning_df.rows[i].cluster.id \in 0..(n_clusters - 1)

\* three records, two of which round to the same coordinate, in two clusters
C6_Witness ==
    /\ LoadDone /\ ValidK /\ clustering = "clustered"
    /\ n_clusters = 2
    /\ Len(KeptRows) = 3
    /\ \A i \in 1..3 : KeptRows[i].centroid.ok
    /\ Cardinality(DistinctRounded) = 2
    /\ {zoning_df.rows[i].cluster.id : i \in 1..Len(zoning_df.rows)} = {0, 1}

\* C7: after a run that succeeded with K clusters the artifact has exactly
\* the K keys "0" .. "K-1", each with one latitude and one longitude.
C7_ArtifactHasKEntries ==
    (LoadDone /\ load_status = "returned")
        => /\ WrittenThisRun
           /\ Len(centroids_file.data) = n_clusters
           /\ {centroids_file.data[i].key : i \in 1..Len(centroids_file.data)}
                 = {StrInt(k) : k \in 0..(n_clusters - 1)}
           /\ \A i \in 1..Len(centroids_file.data) :
                 DOMAIN centroids_file.data[i] = {"key", "latitude", "longitude"}

----------------------------------------------------------------------------
(***************************************************************************)
(* Properties of load_data_sources (checked under SpecPipeline)            *)
(***************************************************************************)

\* C4: a geo-tagging loader of a run works with the centroid artifact that
\* the zoning clustering of that same run wrote.
C4_LoadersReadThisRunsArtifact ==
    /\ yelp.status = "loaded" => yelp.run = run
    /\ opentable.status = "loaded" => opentable.run = run

----------------------------------------------------------------------------
(***************************************************************************)
(* Properties of rank_clusters (checked under SpecRank)                    *)
(***************************************************************************)

MinOf(S) == CHOOSE x \in S : \A y \in S : x <= y
MaxOf(S) == CHOOSE x \in S : \A y \in S : x >= y
Column(rows, col) == {rows[i][col] : i \in 1..Len(rows)}
Spread(rows, col) == MaxOf(Column(rows, col)) - MinOf(Column(rows, col))
Offset(rows, row, col) == row[col] - MinOf(Column(rows, col))

\* The weight table of the specification, in half units.
TableWeights(cap, rsk) ==
    IF cap = "Low" /\ rsk = "Low" THEN [f |-> -4, r |-> 2, p |-> -2, c |-> -6]
    ELSE IF cap = "Low" /\ rsk = "High" THEN [f |-> 4, r |-> -5, p |-> -2, c |-> -3]
    ELSE IF cap = "High" /\ rsk = "Low" THEN [f |-> 5, r |-> 3, p |-> 1, c |-> -6]
    ELSE [f |-> 6, r |-> 5, p |-> 2, c |-> 3]

\* score = wF*nF + wR*nR + wP*nP + wC*nC with n = (x - min) / (max - min),
\* multiplied through by the four spreads.
NormalizedScoreHolds(rows, row, w) ==
    LET dF == Spread(rows, "total_footfall")
        dR == Spread(rows, "avg_rating")
        dP == Spread(rows, "avg_price")
        dC == Spread(rows, "category_count")
    IN row.score * dF * dR * dP * dC
         = w.f * Offset(rows, row, "total_footfall") * dR * dP * dC
         + w.r * Offset(rows, row, "avg_rating") * dF * dP * dC
         + w.p * Offset(rows, row, "avg_price") * dF * dR * dC
         + w.c * Offset(rows, row, "category_count") * dF * dR * dP

AllSpread(rows) ==
    /\ Len(rows) > 0
    /\ \A col \in {"total_footfall", "avg_rating", "avg_price", "category_count"} :
          Spread(rows, col) > 0

\* C1: for each of the four pairs, every returned row's score is the weighted
\* sum of its min-max normalized features with the weights of the table
\* (stated for tables in which every feature has max > min).
C1_NormalizedWeightedScore ==
    (rank_status = "returned" /\ HasBranch(capital, risk) /\ AllSpread(ranked.rows))
        => \A i \in 1..Len(ranked.rows) :
              NormalizedScoreHolds(ranked.rows, ranked.rows[i], TableWeights(capital, risk))

\* C2: a call with a pair outside {Low, High} x {Low, High} ends in an error
\* and returns no table, whatever table it was given.
C2_UnknownPairFails ==
    (rank_status # "pending" /\ ~HasBranch(capital, risk))
        => (rank_status = "raised" /\ ranked = NoTable)

\* C8: on an empty ClusterProfile table and any of the four pairs,
\* rank_clusters returns an empty table and raises nothing.
C8_EmptyTableRanksEmpty ==
    (rank_status # "pending" /\ Len(cluster_df.rows) = 0 /\ HasBranch(capital, risk))
        => (rank_status = "returned" /\ ranked.scored /\ ranked.rows = <<>>)

C8_Witness ==
    /\ rank_status = "returned"
    /\ ~cluster_df.scored /\ Len(cluster_df.rows) = 0
    /\ capital = "High" /\ risk = "Low"
    /\ ranked.rows = <<>>

Features(row) ==
    <<row.cluster_id, row.category_count, row.total_footfall, row.avg_rating, row.avg_price>>

\* C9: the returned table holds exactly the rows of the input (a permutation
\* of them) and consecutive rows have non-increasing scores.
C9_SameRowsSortedDescending ==
    rank_status = "returned" =>
        /\ Len(ranked.rows) = Len(cluster_df.rows)
        /\ \E p \in Perms(Len(ranked.rows)) :
              \A i \in 1..Len(ranked.rows) :
                  Features(ranked.rows[i]) = Features(cluster_df.rows[p[i]])
        /\ \A i \in 1..(Len(ranked.rows) - 1) :
              ranked.rows[i].score >= ranked.rows[i + 1].score

\* the sort had to move a row: the second input row comes out first
C9_Witness ==
    /\ rank_status = "returned"
    /\ ~cluster_df.scored /\ Len(cluster_df.rows) = 2
    /\ ranked.rows[1].cluster_id = 2
    /\ ranked.rows[1].score > ranked.rows[2].score

InputPos(id) == CHOOSE i \in 1..Len(cluster_df.rows) : cluster_df.rows[i].cluster_id = id

\* C10: rows of equal score come out in the order they had in the input.
C10_TiesKeepInputOrder ==
    rank_status = "returned" =>
        \A i, j \in 1..Len(ranked.rows) :
            (i < j /\ ranked.rows[i].score = ranked.rows[j].score)
                => InputPos(ranked.rows[i].cluster_id) < InputPos(ranked.rows[j].cluster_id)

\* C11: the returned table carries a normalized column for each of the
\* four features (and with them a defined fallback for max = min).
C11_NormalizedColumnsPresent ==
    (rank_status = "returned" /\ HasBranch(capital, risk))
        => {"normalized_total_footfall", "normalized_avg_rating",
            "normalized_avg_price", "normalized_category_count"} \subseteq TableColumns(ranked)

Dominates(a, b) ==
    /\ a.category_count > b.category_count /\ a.total_footfall > b.total_footfall
    /\ a.avg_rating > b.avg_rating /\ a.avg_price > b.avg_price

\* C12: of two clusters, one greater than the other in all four features,
\* rank_clusters under (Low, Low) places the smaller one first.
C12_LowLowPrefersSmallerCluster ==
    (/\ rank_status = "returned" /\ capital = "Low" /\ risk = "Low"
     /\ Len(cluster_df.rows) = 2)
        => \A a, b \in 1..2 :
              Dominates(cluster_df.rows[a], cluster_df.rows[b])
                  => ranked.rows[1].cluster_id = cluster_df.rows[b].cluster_id

\* the greater cluster comes first in the input and second in the output
C12_Witness ==
    /\ rank_status = "returned" /\ capital = "Low" /\ risk = "Low"
    /\ ~cluster_df.scored /\ Len(cluster_df.rows) = 2
    /\ Dominates(cluster_df.rows[1], cluster_df.rows[2])
    /\ ranked.rows[1].cluster_id = 2 /\ ranked.rows[2].cluster_id = 1

----------------------------------------------------------------------------
(***************************************************************************)
(* Properties of get_cluster_profiles (checked under SpecProfiles)         *)
(***************************************************************************)

\* the records of the table the call is given
InputRows == combined_data.rows
\* the records of the input table that lie in cluster c
RecordsOf(c) == {i \in 1..Len(InputRows) : InputRows[i].cluster_id = c}
\* the records the call selects: all of them without a target, else those
\* its flag marks
TakesPart(i) ==
    ~target_category.given \/ HasTargetCategory(InputRows[i], target_category.name)
SelectedOf(c) == {i \in RecordsOf(c) : TakesPart(i)}

\* C14: every output row's business_density is the number of records of its
\* cluster in the whole input table, with or without a target category; so
\* it is never below the row's category_count, and a filtered call never
\* reports more than the unfiltered call on the same table does.
C14_DensityOverUnfilteredTable ==
    [][GetClusterProfiles =>
        \A k \in 1..Len(cluster_stats') :
            /\ cluster_stats'[k].business_density
                  = Cardinality(RecordsOf(cluster_stats'[k].cluster_id))
            /\ cluster_stats'[k].category_count <= cluster_stats'[k].business_density]_vars

C14_Witness ==
    /\ profile_status = "returned"
    /\ target_category.given
    /\ \E k \in 1..Len(cluster_stats) :
          /\ cluster_stats[k].business_density = 3
          /\ cluster_stats[k].category_count = 1

\* C15: in every output row category_count is the number of selected
\* records of the cluster, total_footfall the sum of their review_count,
\* avg_rating and avg_price the means (sum over count) of their rating and
\* price_category.
C15_AggregatesOverSelectedRows ==
    [][GetClusterProfiles =>
        \A k \in 1..Len(cluster_stats') :
            LET row == cluster_stats'[k]
                sel == SelectedOf(row.cluster_id)
            IN /\ row.category_count = Cardinality(sel)
               /\ row.total_footfall = SumOver(sel, [i \in sel |-> InputRows[i].review_count])
               /\ row.avg_rating = [sum |-> SumOver(sel, [i \in sel |-> InputRows[i].rating]),
                                    n |-> Cardinality(sel)]
               /\ row.avg_price = [sum |-> SumOver(sel, [i \in sel |-> InputRows[i].price_category]),
                                   n |-> Cardinality(sel)]]_vars

C15_Witness ==
    /\ profile_status = "returned"
    /\ target_category.given
    /\ \E k \in 1..Len(cluster_stats) :
          /\ cluster_stats[k].category_count = 2
          /\ cluster_stats[k].total_footfall = 4
          /\ cluster_stats[k].avg_rating = [sum |-> 7, n |-> 2]
          /\ cluster_stats[k].avg_price = [sum |-> 3, n |-> 2]
          /\ cluster_stats[k].business_density = 3

\* C16: the output has exactly one row for each cluster id with a selected
\* record and no row for any other cluster id.
C16_OneRowPerSelectedCluster ==
    [][GetClusterProfiles =>
        /\ {cluster_stats'[k].cluster_id : k \in 1..Len(cluster_stats')}
              = {InputRows[i].cluster_id : i \in {j \in 1..Len(InputRows) : TakesPart(j)}}
        /\ \A k, l \in 1..Len(cluster_stats') :
              cluster_stats'[k].cluster_id = cluster_stats'[l].cluster_id => k = l]_vars

C16_Witness ==
    /\ profile_status = "returned"
    /\ target_category.given
    /\ Len(cluster_stats) = 1
    /\ {combined_data.rows[i].cluster_id : i \in 1..Len(combined_data.rows)} = {0, 1}

\* C17: with a target category a record takes part in the aggregation
\* exactly when the category is a member of the record's category list.
C17_SelectedIffMember ==
    (profile_status = "returned" /\ target_category.given)
        => \A i \in 1..Len(combined_data.rows) :
              combined_data.rows[i].has_target_category
                  <=> target_category.name \in Range(combined_data.rows[i].categories)

\* C18: the call leaves the table it is given as it was: same rows, same
\* columns, same values.
C18_InputTableUnchanged == [][combined_data' = combined_data]_vars

----------------------------------------------------------------------------
(***************************************************************************)
(* _calculate_centroid and the missing artifact                            *)
(***************************************************************************)

\* C19 (SpecZoning): computing the centroid column never aborts the load;
\* a malformed geometry gets the no-centroid value, a parsed shape gets
\* latitude = y and longitude = x of its centroid.
C19_CentroidNeverRaises ==
    (load_status # "pending" /\ zoning_file.exists /\ Len(zoning_file.rows) > 0)
        => /\ clustering # "not_run"
           /\ {zoning_df.rows[i].geom : i \in 1..Len(zoning_df.rows)}
                 = {KeptRows[i].geom : i \in 1..Len(KeptRows)}
           /\ \A i \in 1..Len(zoning_df.rows) :
                 LET r == zoning_df.rows[i] IN
                 IF r.geom.ok
                 THEN /\ r.centroid.ok
                      /\ r.centroid.latitude = r.geom.y
                      /\ r.centroid.longitude = r.geom.x
                 ELSE r.centroid = NoValue

C19_Witness ==
    /\ load_status # "pending"
    /\ \E i, j \in 1..Len(zoning_df.rows) :
          /\ ~zoning_df.rows[i].geom.ok
          /\ zoning_df.rows[i].centroid = NoValue
          /\ zoning_df.rows[j].geom.ok
          /\ zoning_df.rows[j].geom.x # zoning_df.rows[j].geom.y
          /\ zoning_df.rows[j].centroid.latitude = zoning_df.rows[j].geom.y

\* C20 (SpecPipeline): with the artifact missing, constructing a
\* geo-tagging loader fails, the artifact stays absent, the source is not
\* stored, and load_data_sources moves on to the next source.
C20_MissingArtifactFailsLoaderOnly ==
    [][/\ (YelpStep /\ ~centroids_file.exists)
            => /\ yelp'.status = "raised"
               /\ centroids_file' = centroids_file
               /\ raw_data' = raw_data
               /\ pc' = "csv"
       /\ (OpenTableStep /\ ~centroids_file.exists)
            => /\ opentable'.status = "raised"
               /\ centroids_file' = centroids_file
               /\ raw_data' = raw_data
               /\ pc' = "done"]_vars

C20_Witness ==
    /\ pc = "done"
    /\ yelp.status = "raised"
    /\ opentable.status = "raised"
    /\ ~centroids_file.exists

----------------------------------------------------------------------------
(***************************************************************************)
(* The tables of the geo-tagging loaders (checked under SpecPipeline)      *)
(***************************************************************************)

\* the loaders of a run that returned a table
Loaded == {l \in {yelp, opentable} : l.status = "loaded"}
\* the centroids whose query returned business b, in artifact order
QueriesReturning(l, b) == {i \in 1..Len(l.centroids) : b \in Range(l.responses[i])}

\* C21: every record of a returned table carries a cluster_id that is a key
\* of the artifact the loader read and names a centroid whose query
\* returned that record.
C21_TaggedWithQueriedCluster ==
    \A l \in Loaded : \A k \in 1..Len(l.data) :
        \E i \in QueriesReturning(l, l.data[k].id) :
            l.centroids[i].key = l.data[k].cluster_id

C21_Witness ==
    /\ yelp.status = "loaded"
    /\ \E j, k \in 1..Len(yelp.data) :
          /\ yelp.data[j].cluster_id # yelp.data[k].cluster_id
          /\ QueriesReturning(yelp, yelp.data[k].id) # QueriesReturning(yelp, yelp.data[j].id)

\* C28: a returned table has no two records with the same business id;
\* every returned business appears in it, once, tagged with the first
\* centroid (in the artifact's order) whose query returned it.
C28_UniqueIdsFirstClusterWins ==
    \A l \in Loaded :
        /\ \A j, k \in 1..Len(l.data) : l.data[j].id = l.data[k].id => j = k
        /\ {l.data[k].id : k \in 1..Len(l.data)}
              = UNION {Range(l.responses[i]) : i \in 1..Len(l.responses)}
        /\ \A k \in 1..Len(l.data) :
              LET first == MinOf(QueriesReturning(l, l.data[k].id)) IN
              l.data[k].cluster_id = l.centroids[first].key

C28_Witness ==
    /\ opentable.status = "loaded"
    /\ QueriesReturning(opentable, "b1") = {1, 2}
    /\ QueriesReturning(opentable, "b2") = {2}
    /\ Len(opentable.data) = 2
    /\ opentable.data[1].cluster_id # opentable.data[2].cluster_id

\* C29: when the artifact exists and every centroid query returns nothing,
\* the Yelp loader returns an empty table instead of raising, and
\* load_data_sources stores nothing for Yelp and goes on.
C29_NoRecordsGivesEmptyTable ==
    [][(/\ YelpStep
        /\ centroids_file.exists
        /\ \A i \in 1..Len(yelp'.responses) : yelp'.responses[i] = <<>>)
          => /\ yelp'.status = "loaded"
             /\ yelp'.data = <<>>
             /\ raw_data' = raw_data
             /\ pc' = "csv"]_vars

C29_Witness ==
    /\ yelp.status = "loaded"
    /\ Len(yelp.centroids) >= 2
    /\ \A i \in 1..Len(yelp.responses) : yelp.responses[i] = <<>>
    /\ yelp.data = <<>>
    /\ "Yelp" \notin raw_data
    /\ opentable.status = "loaded"

----------------------------------------------------------------------------
\* C30 (SpecProfiles): in every output row category_count is at most
\* business_density, and the two are equal in every row when no target
\* category is given.
C30_CountAtMostDensity ==
    profile_status = "returned"
        => \A k \in 1..Len(cluster_stats) :
              /\ cluster_stats[k].category_count <= cluster_stats[k].business_density
              /\ ~target_category.given
                    => cluster_stats[k].category_count = cluster_stats[k].business_density

C30_Witness ==
    /\ profile_status = "returned"
    /\ ~target_category.given
    /\ Len(cluster_stats) = 2
    /\ cluster_stats[1].category_count = 2
    /\ cluster_stats[1].business_density = 2
    /\ cluster_stats[2].total_footfall = 3

----------------------------------------------------------------------------
(***************************************************************************)
(* The weighted sample and the labels (checked under SpecZoning)           *)
(***************************************************************************)

\* the records of the frame that have a centroid
WithCentroid == {i \in 1..Len(zoning_df.rows) : zoning_df.rows[i].centroid.ok}
\* the records whose centroid rounds to coordinate c
RoundingTo(c) == {i \in WithCentroid : Rounded(zoning_df.rows[i]) = c}
\* the replicated instances of coordinate c in the k-means sample
InstancesOf(c) == {j \in 1..Len(kmeans.coords) : kmeans.coords[j] = c}

\* C23: the k-means sample holds every rounded coordinate as many times as
\* there are records whose centroid rounds to it (at least once), its size
\* is the number of records with a centroid, and the labels go back to the
\* records through that same rounded coordinate.
C23_SampleRepeatsByFrequency ==
    clustering # "not_run"
        => /\ Len(kmeans.coords) = Cardinality(WithCentroid)
           /\ \A c \in Range(kmeans.coords) \cup {Rounded(zoning_df.rows[i]) : i \in WithCentroid} :
                 /\ Cardinality(InstancesOf(c)) = Cardinality(RoundingTo(c))
                 /\ Cardinality(InstancesOf(c)) >= 1
           /\ clustering = "clustered"
                 => \A i \in WithCentroid :
                       /\ zoning_df.rows[i].cluster.ok
                       /\ \A j \in InstancesOf(Rounded(zoning_df.rows[i])) :
                             kmeans.labels[j] = zoning_df.rows[i].cluster.id

C23_Witness ==
    /\ clustering = "clustered"
    /\ Cardinality(Range(kmeans.coords)) >= 2
    /\ \E i, j \in WithCentroid :
          /\ zoning_df.rows[i].geom # zoning_df.rows[j].geom
          /\ Rounded(zoning_df.rows[i]) = Rounded(zoning_df.rows[j])
          /\ Cardinality(InstancesOf(Rounded(zoning_df.rows[i]))) = 2

\* the sample instances that k-means put in cluster k
MembersOf(k) == {j \in 1..Len(kmeans.coords) : kmeans.labels[j] = k}
\* the centre of cluster k as centroid_coord writes it (4 decimals)
CentreOf(k) ==
    [ok |-> TRUE,
     latitude |-> Round4(SumOver(MembersOf(k), [j \in MembersOf(k) |-> kmeans.coords[j][1]])
                            \div Cardinality(MembersOf(k))),
     longitude |-> Round4(SumOver(MembersOf(k), [j \in MembersOf(k) |-> kmeans.coords[j][2]])
                             \div Cardinality(MembersOf(k)))]

\* C24: after a clustering, a record's cluster id is the label most of the
\* instances of its rounded coordinate carry; records with the same rounded
\* coordinate share cluster id and centroid_coord; centroid_coord is the
\* centre of that cluster (the mean of its sample members).
C24_ModeLabelAndClusterCentre ==
    clustering = "clustered"
        => \A i \in WithCentroid :
              LET r == zoning_df.rows[i]
                  inst == InstancesOf(Rounded(r))
              IN /\ \A w \in Range(kmeans.labels) :
                       Cardinality({j \in inst : kmeans.labels[j] = r.cluster.id})
                          >= Cardinality({j \in inst : kmeans.labels[j] = w})
                 /\ \A h \in RoundingTo(Rounded(r)) :
                       /\ zoning_df.rows[h].cluster = r.cluster
                       /\ zoning_df.rows[h].centroid_coord = r.centroid_coord
                 /\ r.centroid_coord = CentreOf(r.cluster.id)

C24_Witness ==
    /\ clustering = "clustered"
    /\ \E i, j, h \in WithCentroid :
          /\ i # j
          /\ Rounded(zoning_df.rows[i]) = Rounded(zoning_df.rows[j])
          /\ Rounded(zoning_df.rows[h]) # Rounded(zoning_df.rows[i])
          /\ zoning_df.rows[h].cluster = zoning_df.rows[i].cluster
          /\ <<zoning_df.rows[h].centroid_coord.latitude,
               zoning_df.rows[h].centroid_coord.longitude>> # Rounded(zoning_df.rows[h])

\* the rows of the file with a ZONE_CMPLT value
ZonedRows == SelectSeq(zoning_file.rows, LAMBDA r : r.zone)

\* C25: the frame a load builds holds the rows of the file that have a
\* ZONE_CMPLT value, in order, and nothing else; only those rows get a
\* centroid and only they enter the k-means sample.
C25_EmptyZoneRowsDroppedFirst ==
    LoadDone
        => /\ Len(zoning_df.rows) = Len(ZonedRows)
           /\ \A i \in 1..Len(zoning_df.rows) : zoning_df.rows[i].geom = ZonedRows[i].geom
           /\ Len(kmeans.coords)
                 = Cardinality({i \in 1..Len(ZonedRows) : ZonedRows[i].geom.ok})

C25_Witness ==
    /\ LoadDone
    /\ clustering = "clustered"
    /\ Len(zoning_df.rows) = 2
    /\ \E i \in 1..Len(zoning_file.rows) :
          /\ ~zoning_file.rows[i].zone
          /\ zoning_file.rows[i].geom.ok
          /\ \A k \in 1..Len(zoning_df.rows) : zoning_df.rows[k].geom # zoning_file.rows[i].geom

----------------------------------------------------------------------------
\* C26 (SpecProcessor): after a processor has run, every record's
\* price_category is 1, 2, 3 or 4, the tier of its label in the source's
\* own price map, and 2 for a label that is missing or not in that map.
C26_PriceCategoryOneToFour ==
    price_run.status = "returned"
        => /\ Len(price_run.price_category) = Len(price_run.labels)
           /\ \A i \in 1..Len(price_run.labels) :
                 LET label == price_run.labels[i]
                     known == IF price_run.source = "yelp" THEN YelpPriceMap
                              ELSE OpenTablePriceMap
                     cell == price_run.price_category[i]
                 IN /\ ~cell.nan
                    /\ cell.value \in 1..4
                    /\ label \in DOMAIN known => cell.value = known[label]
                    /\ label \notin DOMAIN known => cell.value = 2

C26_Witness ==
    /\ price_run.status = "returned"
    /\ price_run.source = "opentable"
    /\ price_run.labels = <<"$$$", "Very Expensive">>
    /\ price_run.price_category[1].value = 2
    /\ price_run.price_category[2].value = 4

----------------------------------------------------------------------------
(***************************************************************************)
(* Properties of main and analyze_clusters (checked under SpecMain)        *)
(***************************************************************************)

CapitalLevels == {LowCapital, HighCapital}
RiskLevels == {LowRisk, HighRisk}
\* Low_Capital_Low_Risk and the like
StrategyLabel(capital_level, risk_level) ==
    Replace(capital_level \o <<"_">> \o risk_level, <<" ">>, <<"_">>)

\* C22: a finished analysis has written exactly four ranked files, and for
\* each (capital, risk) pair exactly one of them carries the pair's label
\* (Low_Capital_Low_Risk, ...) in its name, whatever the letter case, and
\* is the one file the dashboard's pattern selects.
C22_FourFilesNamedByLabel ==
    analysis.status = "returned"
        => /\ Cardinality(analysis.files) = 4
           /\ \A c \in CapitalLevels, r \in RiskLevels :
                 /\ Cardinality({f \in analysis.files :
                                   IsSubstring(Lower(StrategyLabel(c, r)), Lower(f))}) = 1
                 /\ Cardinality({f \in analysis.files : Matches(StrategyPattern(c, r), f)}) = 1

\* C27: in mode 'both' the analysis starts only once process_data has
\* returned and never after it raised; a process_data that loaded nothing
\* returns without writing a combined file, and the analysis that follows
\* reads the most recently modified combined file of the earlier runs.
C27_AnalysisFollowsProcess ==
    mode = "both"
        => /\ analysis.status # "not_run" => process_result.status = "returned"
           /\ process_result.status = "raised"
                 => analysis.status = "not_run" /\ main_pc = "failed"
           /\ (process_result.status # "not_run" /\ raw_data = {})
                 => /\ process_result = [status |-> "returned", wrote |-> 0]
                    /\ main_pc # "failed" => analysis.status # "raised"
                    /\ (main_pc = "done" /\ processed_dir # {})
                          => /\ analysis.status = "returned"
                             /\ \E f \in processed_dir :
                                   /\ f.name = analysis.input
                                   /\ \A g \in processed_dir : g.mtime <= f.mtime

C27_Witness ==
    /\ mode = "both"
    /\ process_result = [status |-> "returned", wrote |-> 0]
    /\ raw_data = {}
    /\ processed_dir = {[name |-> 1, mtime |-> 2], [name |-> 2, mtime |-> 1]}
    /\ analysis.status = "returned"
    /\ analysis.input = 1
    /\ main_pc = "done"

============================================================================
